---- MODULE Spec2Model ----
(***************************************************************************)
(* Model of init.py, the template management script: selection of a       *)
(* report and a slide template (interactive prompts or command-line        *)
(* flags), the copy stage (copy_template), the build stage                 *)
(* (compile_template, find_makefile) and main's exit codes.                *)
(*                                                                         *)
(* Representation.                                                         *)
(*   - A file name is the sequence of its dot-separated segments:          *)
(*     "main.tex" is <<"main","tex">>, ".git" is <<"","git">>, "" is <<"">>.*)
(*   - A path below a directory is a sequence of names.                    *)
(*   - A directory is a record [exists, files]: files is the set of paths  *)
(*     of the regular files below it (sub-directories are those paths'     *)
(*     proper prefixes).                                                   *)
(*   - A line typed at a prompt is a sequence of one-character strings.    *)
(***************************************************************************)
EXTENDS Integers, Sequences, FiniteSets, TLC

VARIABLES
    pc,               \* position in main / compile_template
    argv,             \* parsed command line (all fields absent: no argument)
    report_template,  \* main's local: chosen report key or "None"
    slide_template,   \* main's local: chosen slide key or "None"
    ppt_template,     \* main's local: chosen .pptx name or NoName
    repo,             \* SCRIPT_DIR: template path -> directory
    targetExists,     \* whether target_path exists
    target,           \* target_path: sub-directory name -> directory
    success,          \* main's local of the copy stage
    compile_success,  \* main's local of the build stage
    call,             \* arguments of the running compile_template call
    ret,              \* where compile_template returns to
    retval,           \* the last return value of compile_template
    makefile_dir,     \* compile_template's local: find_makefile's result
    result,           \* compile_template's local: outcome of subprocess.run
    exitCode,         \* <<>> while running, <<code>> once the process has exited
    listed,           \* the .pptx names printed by the missing --ppt-template error
    tstate,           \* per selected template: its stage in the pipeline
    makeLog,          \* the build tool invocations made so far
    copyLog,          \* the copy_template calls made so far
    prompts,          \* the overwrite prompts shown so far
    typed             \* the last line typed at a selection menu, when recorded

vars == <<pc, argv, report_template, slide_template, ppt_template, repo,
          targetExists, target, success, compile_success, call, ret, retval,
          makefile_dir, result, exitCode, listed, tstate, makeLog, copyLog,
          prompts, typed>>

-----------------------------------------------------------------------------
(* Bounds of the model.                                                    *)

\* Longest line typed at a prompt.
MaxInputLen == 2

\* Deepest directory (below the searched root) that may hold a Makefile.
MaxDirDepth == 4

-----------------------------------------------------------------------------
(* Values standing for Python's None.                                      *)

None == "None"

\* No file name (None where a name is expected); the empty name "" is EmptyName.
NoName == <<>>

EmptyName == <<"">>

\* Python truthiness of an optional key (None is the only falsy key the
\* argument parser or the menus can produce).
KeyGiven(k) == k # None

\* Python truthiness of an optional file name: None and "" are falsy.
NameGiven(n) == n # NoName /\ n # EmptyName

NoDir == [exists |-> FALSE, files |-> {}]

Dir(fs) == [exists |-> TRUE, files |-> fs]

-----------------------------------------------------------------------------
(* Template configuration.  The display name is only printed and is left   *)
(* out of the records.                                                     *)

REPORT_TEMPLATES ==
    ("latex_exp" :> [path |-> "latex_exp", has_makefile |-> TRUE,
                     makefile_path |-> None]) @@
    ("markdown_template" :> [path |-> "markdown_template", has_makefile |-> FALSE,
                             makefile_path |-> None])

SLIDE_TEMPLATES ==
    ("beamer" :> [path |-> "beamer", has_makefile |-> TRUE,
                  makefile_path |-> None]) @@
    ("reveal-md" :> [path |-> "reveal-md", has_makefile |-> TRUE,
                     makefile_path |-> "slide/src"]) @@
    ("ppt" :> [path |-> "PPT/templates", has_makefile |-> FALSE,
               makefile_path |-> None])

\* list(REPORT_TEMPLATES.keys()) and list(SLIDE_TEMPLATES.keys()): insertion order.
ReportKeys == <<"latex_exp", "markdown_template">>

SlideKeys == <<"beamer", "reveal-md", "ppt">>

TemplatePaths ==
    {REPORT_TEMPLATES[k].path : k \in DOMAIN REPORT_TEMPLATES} \cup
    {SLIDE_TEMPLATES[k].path : k \in DOMAIN SLIDE_TEMPLATES}

-----------------------------------------------------------------------------
(* Strings typed at prompts: strip(), lower(), int().                      *)

IsSpace(c) == c = " "

RECURSIVE LStrip(_)
LStrip(s) == IF s # <<>> /\ IsSpace(Head(s)) THEN LStrip(Tail(s)) ELSE s

RECURSIVE RStrip(_)
RStrip(s) ==
    IF s # <<>> /\ IsSpace(s[Len(s)]) THEN RStrip(SubSeq(s, 1, Len(s) - 1)) ELSE s

\* str.strip()
Strip(s) == RStrip(LStrip(s))

LowerChar(c) == IF c = "Y" THEN "y" ELSE IF c = "N" THEN "n" ELSE c

\* str.lower()
Lower(s) == [i \in 1..Len(s) |-> LowerChar(s[i])]

DigitVal ==
    ("0" :> 0) @@ ("1" :> 1) @@ ("2" :> 2) @@ ("3" :> 3) @@ ("4" :> 4) @@
    ("5" :> 5) @@ ("6" :> 6) @@ ("7" :> 7) @@ ("8" :> 8) @@ ("9" :> 9)

IsDigit(c) == c \in DOMAIN DigitVal

\* The digits of an integer literal: digits, with single underscores between them.
ValidDigits(b) ==
    /\ b # <<>>
    /\ IsDigit(b[1])
    /\ IsDigit(b[Len(b)])
    /\ \A i \in 1..Len(b) : IsDigit(b[i]) \/ b[i] = "_"
    /\ \A i \in 1..(Len(b) - 1) : ~(b[i] = "_" /\ b[i + 1] = "_")

RECURSIVE DigitsValue(_, _)
DigitsValue(b, acc) ==
    IF b = <<>> THEN acc
    ELSE IF Head(b) = "_" THEN DigitsValue(Tail(b), acc)
    ELSE DigitsValue(Tail(b), 10 * acc + DigitVal[Head(b)])

\* int(s): [ok |-> FALSE] stands for ValueError.
ParseInt(s) ==
    LET t == Strip(s)
        signed == t # <<>> /\ (t[1] = "-" \/ t[1] = "+")
        body == IF signed THEN Tail(t) ELSE t
    IN  IF ValidDigits(body)
        THEN [ok |-> TRUE,
              val |-> IF signed /\ t[1] = "-" THEN 0 - DigitsValue(body, 0)
                      ELSE DigitsValue(body, 0)]
        ELSE [ok |-> FALSE, val |-> 0]

RECURSIVE SeqsUpTo(_, _)
SeqsUpTo(S, n) ==
    IF n = 0 THEN {<<>>}
    ELSE LET shorter == SeqsUpTo(S, n - 1)
         IN  shorter \cup {Append(s, c) : s \in shorter, c \in S}

\* Lines typed at a numbered menu.
MenuChars == {"0", "1", "2", "3", "4", "-", " ", "x"}

MenuInputs == SeqsUpTo(MenuChars, MaxInputLen)

\* Lines typed at a yes/no prompt.
AnswerChars == {"y", "Y", "n", " "}

AnswerInputs == SeqsUpTo(AnswerChars, MaxInputLen)

-----------------------------------------------------------------------------
(* File names, patterns and directories.                                   *)

MakefileName == <<"Makefile">>

\* fnmatch of a name against a pattern of the forms used by the script: a
\* literal name, or "*" followed by a literal suffix that starts with a dot
\* (the pattern's first segment is then "*").
FnMatch(name, pat) ==
    IF pat[1] = "*"
    THEN /\ Len(name) >= Len(pat)
         /\ SubSeq(name, Len(name) - Len(pat) + 2, Len(name)) = Tail(pat)
    ELSE name = pat

\* The arguments of shutil.ignore_patterns in copy_template.
IgnorePatterns ==
    << <<"*", "aux">>, <<"*", "log">>, <<"*", "out">>, <<"*", "toc">>,
       <<"*", "synctex", "gz">>, <<"*", "bbl">>, <<"*", "blg">>,
       <<"*", "fls">>, <<"*", "fdb_latexmk">>, <<"*", "nav">>, <<"*", "snm">>,
       <<"*", "vrb">>, <<"*", "pdf">>,
       <<"*", "aux">>, <<"site">>, <<"__pycache__">>, <<"*", "pyc">>,
       <<"", "git">> >>

Ignored(name) == \E i \in DOMAIN IgnorePatterns : FnMatch(name, IgnorePatterns[i])

IsPrefix(p, f) == Len(p) <= Len(f) /\ SubSeq(f, 1, Len(p)) = p

\* Path.exists() of the path p below directory d (a file or a directory).
Exists(d, p) ==
    IF p = <<>> THEN d.exists ELSE \E f \in d.files : IsPrefix(p, f)

\* The sub-directories of d (the root, <<>>, included), as paths below d.
DirsOf(d) == UNION {{SubSeq(f, 1, i) : i \in 0..(Len(f) - 1)} : f \in d.files}

\* The names directly inside directory d.
Children(d) == {f[1] : f \in d.files}

\* What shutil.copytree copies with the ignore callback: a name matching a
\* pattern is skipped at every level, a directory together with all it holds.
CopyTreeFiles(files) == {f \in files : \A i \in 1..Len(f) : ~Ignored(f[i])}

\* shutil.rmtree(path)
RmTree(tgt, sub) == [tgt EXCEPT ![sub] = NoDir]

\* shutil.copytree(source, destination, ignore=...): creates the destination
\* (which does not exist at any call the script makes) and copies into it.
CopyTree(tgt, sub, source) ==
    [tgt EXCEPT ![sub] = Dir(@.files \cup CopyTreeFiles(source.files))]

\* Python's order on the file names that occur in the PowerPoint directory.
NameRank ==
    (<<"a", "pptx">> :> 1) @@ (<<"b", "pptx">> :> 2) @@ (<<"notes", "txt">> :> 3) @@
    (<<"zz", "pptx">> :> 4)

RECURSIVE Sorted(_)
Sorted(S) ==
    IF S = {} THEN <<>>
    ELSE LET m == CHOOSE x \in S : \A y \in S : NameRank[x] <= NameRank[y]
         IN  <<m>> \o Sorted(S \ {m})

\* list_ppt_templates(): the sorted *.pptx names of SCRIPT_DIR/PPT/templates.
list_ppt_templates(r) ==
    LET ppt_dir == r["PPT/templates"]
    IN  IF ~ppt_dir.exists THEN <<>>
        ELSE Sorted({n \in Children(ppt_dir) : FnMatch(n, <<"*", "pptx">>)})

-----------------------------------------------------------------------------
(* copy_template                                                           *)

\* Where a directory template goes below the target path.
TargetSubdir(template_key, template_type) ==
    IF template_type = "report" THEN "report"
    ELSE IF template_type = "slide" THEN "slide"
    ELSE template_key

\* The overwrite prompt's answer counts as yes.
Accepts(answer) == Lower(Strip(answer)) = <<"y">>

\* Copying into the existing destination without removing it.
OverwriteNoRemove(tgt, sub, source) == CopyTree(tgt, sub, source)

\* Replacing an existing destination: remove it, then copy.
Overwrite(tgt, sub, source) == CopyTree(RmTree(tgt, sub), sub, source)

\* Whether copy_template(...) reaches its overwrite prompt: a directory
\* template whose source exists and whose destination exists.
OverwritePrompt(r, tgt, template_key, template_info, template_type, is_ppt, ppt_filename) ==
    /\ r[template_info.path].exists
    /\ ~(is_ppt /\ NameGiven(ppt_filename))
    /\ tgt[TargetSubdir(template_key, template_type)].exists

\* copy_template(...) on repository r and target tgt, answer being the line
\* typed if the overwrite prompt is shown.  The result holds the return
\* value (ok), the target afterwards, whether anything was written and
\* whether the prompt was shown.
copy_template(r, tgt, template_key, template_info, template_type, is_ppt, ppt_filename, answer) ==
    LET source_path == r[template_info.path]
        failed == [ok |-> FALSE, target |-> tgt, wrote |-> FALSE, prompted |-> FALSE]
    IN  IF ~source_path.exists THEN failed
        ELSE IF is_ppt /\ NameGiven(ppt_filename)
        THEN IF ~Exists(source_path, <<ppt_filename>>) THEN failed
             ELSE [ok |-> TRUE,
                   target |-> [tgt EXCEPT !["slide"] = Dir(@.files \cup {<<ppt_filename>>})],
                   wrote |-> TRUE, prompted |-> FALSE]
        ELSE LET sub == TargetSubdir(template_key, template_type)
             IN  IF tgt[sub].exists
                 THEN IF ~Accepts(answer)
                      THEN [failed EXCEPT !.prompted = TRUE]
                      ELSE [ok |-> TRUE, target |-> Overwrite(tgt, sub, source_path),
                            wrote |-> TRUE, prompted |-> TRUE]
                 ELSE [ok |-> TRUE, target |-> CopyTree(tgt, sub, source_path),
                       wrote |-> TRUE, prompted |-> FALSE]

\* The lines that can be typed during a copy_template call: any line when
\* the overwrite prompt is shown, and none (the empty line stands for it)
\* when it is not.
AnswersFor(r, tgt, template_key, template_info, template_type, is_ppt, ppt_filename) ==
    IF OverwritePrompt(r, tgt, template_key, template_info, template_type, is_ppt, ppt_filename)
    THEN AnswerInputs ELSE {<<>>}

-----------------------------------------------------------------------------
(* find_makefile                                                           *)

\* The sub-directories in another order.
common_subdirs_reordered == << << <<"src">> >>, << <<"slide">>, <<"src">> >>, << <<"slide">> >> >>

\* The sub-directories find_makefile tries after the root, in its order.
common_subdirs == << << <<"slide">>, <<"src">> >>, << <<"src">> >>, << <<"slide">> >> >>

\* The depth limit of find_makefile's os.walk loop.
WalkDepthLimit == 3

\* (base / d / 'Makefile').exists()
HasMakefile(base, d) == Exists(base, d \o <<MakefileName>>)

\* A directory the os.walk loop accepts: not deeper than the limit, with a
\* regular file Makefile in it.
WalkHit(base, d) ==
    /\ ~(Len(d) > WalkDepthLimit)
    /\ (d \o <<MakefileName>>) \in base.files

\* os.walk is top-down: a directory comes before what it holds, and the
\* order among the sub-directories of one directory is the file system's.
\* The first accepted directory is therefore any accepted directory none of
\* whose ancestors is accepted.
WalkFirst(base) ==
    {d \in DirsOf(base) :
        /\ WalkHit(base, d)
        /\ \A i \in 0..(Len(d) - 1) : ~WalkHit(base, SubSeq(d, 1, i))}

Found(d) == [found |-> TRUE, dir |-> d]

NotFound == [found |-> FALSE, dir |-> <<>>]

\* find_makefile(base_path): the set of results it can return.
find_makefile(base) ==
    IF HasMakefile(base, <<>>) THEN {Found(<<>>)}
    ELSE IF \E i \in DOMAIN common_subdirs : HasMakefile(base, common_subdirs[i])
    THEN LET i == CHOOSE j \in DOMAIN common_subdirs :
                      /\ HasMakefile(base, common_subdirs[j])
                      /\ \A k \in 1..(j - 1) : ~HasMakefile(base, common_subdirs[k])
         IN  {Found(common_subdirs[i])}
    ELSE IF WalkFirst(base) # {} THEN {Found(d) : d \in WalkFirst(base)}
    ELSE {NotFound}

-----------------------------------------------------------------------------
(* The selection menus of select_templates_interactive.                    *)

\* The menu without the lower bound of the index range: a negative index
\* counts from the end of the list, as keys[idx - 1] does in Python.
MenuChoiceNoLowerBound(keys, line) ==
    LET idx == ParseInt(line)
        i == IF idx.val - 1 < 0 THEN Len(keys) + idx.val ELSE idx.val
    IN  IF ~idx.ok THEN None
        ELSE IF idx.val = 0 THEN None
        ELSE IF idx.val <= Len(keys) /\ i \in 1..Len(keys) THEN keys[i]
        ELSE None

\* The key a menu over keys yields for the typed line: None for a line that
\* is no integer, for 0 and for an index outside 1..len(keys).
MenuChoice(keys, line) ==
    LET idx == ParseInt(line)
    IN  IF ~idx.ok THEN None
        ELSE IF idx.val = 0 THEN None
        ELSE IF 1 <= idx.val /\ idx.val <= Len(keys) THEN keys[idx.val]
        ELSE None

\* The file the PowerPoint file menu yields for the typed line, NoName when
\* the line is no integer or an index outside 1..len(ppt_templates).
PptChoice(ppt_templates, line) ==
    LET idx == ParseInt(line)
    IN  IF ~idx.ok THEN NoName
        ELSE IF 1 <= idx.val /\ idx.val <= Len(ppt_templates) THEN ppt_templates[idx.val]
        ELSE NoName

-----------------------------------------------------------------------------
(* The environment of a run.                                               *)

NoArgs == [report |-> None, slide |-> None, ppt_template |-> NoName, target |-> None]

\* The command lines the argument parser accepts.
ArgLines ==
    [report : DOMAIN REPORT_TEMPLATES \cup {None},
     slide : DOMAIN SLIDE_TEMPLATES \cup {None},
     ppt_template : {NoName, EmptyName, <<"a", "pptx">>, <<"zz", "pptx">>},
     target : {None, "given"}]

\* len(sys.argv) > 1
HasArgs(a) == a # NoArgs

\* The source trees a repository checkout may hold for each template path.
RepoDirs ==
    ("latex_exp" :>
        {Dir({<<MakefileName>>, <<<<"main", "tex">>>>, <<<<"main", "aux">>>>})}) @@
    ("markdown_template" :>
        {NoDir, Dir({<<<<"report", "md">>>>})}) @@
    ("beamer" :>
        {NoDir, Dir({<<MakefileName>>, <<<<"slides", "tex">>>>})}) @@
    ("reveal-md" :>
        {Dir({<<<<"slide">>, <<"src">>, MakefileName>>,
              <<<<"slide">>, <<"src">>, <<"index", "md">>>>}),
         Dir({<<<<"a">>, <<"b">>, <<"c">>, <<"d">>, MakefileName>>})}) @@
    ("PPT/templates" :>
        {NoDir, Dir({}),
         Dir({<<<<"b", "pptx">>>>, <<<<"a", "pptx">>>>, <<<<"notes", "txt">>>>})})

\* A checkout without latex_exp (main refuses to run in it).
BrokenRepo == [p \in TemplatePaths |-> NoDir]

\* The checkouts: every combination of the trees above in which latex_exp
\* exists, and the checkout without it.
Repos ==
    {r \in [TemplatePaths -> UNION {RepoDirs[p] : p \in TemplatePaths}] :
        /\ \A p \in TemplatePaths : r[p] \in RepoDirs[p]
        /\ r["latex_exp"].exists} \cup {BrokenRepo}

\* The sub-directories of the target path the script reads or writes.
TargetSubdirs ==
    {"report", "slide"} \cup DOMAIN REPORT_TEMPLATES \cup DOMAIN SLIDE_TEMPLATES

EmptyTarget == [d \in TargetSubdirs |-> NoDir]

\* What a target path may hold before a run by main.
OldDir == Dir({<<<<"old", "txt">>>>, <<<<"slide">>, MakefileName>>})

MainTargets ==
    {[EmptyTarget EXCEPT !["report"] = r, !["slide"] = s] : r, s \in {NoDir, OldDir}}

\* subprocess.run(['make'], ...): a return code, or an exception.
MakeOutcomes ==
    {[raised |-> None, returncode |-> 0], [raised |-> None, returncode |-> 2],
     [raised |-> "FileNotFoundError", returncode |-> 0],
     [raised |-> "Exception", returncode |-> 0]}

NoResult == [raised |-> None, returncode |-> 0]

NoTyped == [menu |-> None, line |-> <<>>]

NoCall == [template_key |-> None, has_makefile |-> FALSE, template_type |-> None]

Stages == [report |-> "none", slide |-> "none"]

\* The stage of the template of kind template_type becomes s.
SetStage(ts, template_type, s) ==
    IF template_type \in {"report", "slide"} THEN [ts EXCEPT ![template_type] = s]
    ELSE ts

\* The values of main's and compile_template's locals before they are set,
\* and of the logs before anything has happened.
Fresh ==
    /\ report_template = None
    /\ slide_template = None
    /\ ppt_template = NoName
    /\ success = TRUE
    /\ compile_success = TRUE
    /\ retval = TRUE
    /\ makefile_dir = NotFound
    /\ result = NoResult
    /\ exitCode = <<>>
    /\ listed = <<>>
    /\ tstate = Stages
    /\ makeLog = <<>>
    /\ copyLog = <<>>
    /\ prompts = <<>>
    /\ typed = NoTyped

\* A run of the script: a repository, a target path and a command line.
Init ==
    /\ pc = "start"
    /\ argv \in ArgLines
    /\ repo \in Repos
    /\ targetExists \in BOOLEAN
    /\ target \in MainTargets
    /\ (\E d \in TargetSubdirs : target[d].exists) => targetExists
    /\ call = NoCall
    /\ ret = "none"
    /\ Fresh

-----------------------------------------------------------------------------
(* main                                                                    *)

\* sys.exit(code), or main returning (code 0).
Exit(code) ==
    /\ pc' = "exited"
    /\ exitCode' = <<code>>

\* The test with the PowerPoint file name read in place of the slide key.
NothingSelectedWrongVar(r, s) == ~KeyGiven(r) /\ ~NameGiven(ppt_template)

\* The test of "at least one template selected".
NothingSelected(r, s) == ~KeyGiven(r) /\ ~KeyGiven(s)

\* The test with "is None" in place of truthiness.
PptNameIsNone(s, n) == s = "ppt" /\ n = NoName

\* The test that --slide ppt came without a usable --ppt-template.
PptNameMissing(s, n) == s = "ppt" /\ ~NameGiven(n)

\* The check that the script runs in the template repository, and the
\* choice between command-line and interactive mode.
MainStart ==
    /\ pc = "start"
    /\ IF ~repo["latex_exp"].exists THEN Exit(1)
       ELSE /\ pc' = IF HasArgs(argv) THEN "parse" ELSE "ask_report"
            /\ UNCHANGED exitCode
    /\ UNCHANGED <<typed, argv, report_template, slide_template, ppt_template, repo,
                   targetExists, target, success, compile_success, call, ret,
                   retval, makefile_dir, result, listed, tstate, makeLog,
                   copyLog, prompts>>

\* Command-line mode: the selection is read from the arguments, and
\* --slide ppt without --ppt-template is refused.
MainParse ==
    /\ pc = "parse"
    /\ report_template' = argv.report
    /\ slide_template' = argv.slide
    /\ ppt_template' = argv.ppt_template
    /\ IF PptNameMissing(argv.slide, argv.ppt_template)
       THEN /\ listed' = list_ppt_templates(repo)
            /\ Exit(1)
       ELSE /\ pc' = "validate"
            /\ UNCHANGED <<listed, exitCode>>
    /\ UNCHANGED <<typed, argv, repo, targetExists, target, success, compile_success,
                   call, ret, retval, makefile_dir, result, tstate, makeLog,
                   copyLog, prompts>>

\* The report menu, line being the line typed.
ReportMenu(line) ==
    /\ pc = "ask_report"
    /\ report_template' = MenuChoice(ReportKeys, line)
    /\ pc' = "ask_slide"
    /\ UNCHANGED <<argv, slide_template, ppt_template, repo, targetExists, target,
                   success, compile_success, call, ret, retval, makefile_dir,
                   result, exitCode, listed, tstate, makeLog, copyLog, prompts>>

\* The slide menu, line being the line typed.  Choosing ppt leads to the
\* PowerPoint file menu when there are files, and to no slide selection
\* when there are none.
SlideMenu(line) ==
    /\ pc = "ask_slide"
    /\ LET slide_key == MenuChoice(SlideKeys, line)
       IN  IF slide_key = "ppt"
           THEN IF list_ppt_templates(repo) = <<>>
                THEN /\ slide_template' = None
                     /\ pc' = "ask_target"
                ELSE /\ slide_template' = slide_key
                     /\ pc' = "ask_ppt"
           ELSE /\ slide_template' = slide_key
                /\ pc' = "ask_target"
    /\ ppt_template' = NoName
    /\ UNCHANGED <<argv, report_template, repo, targetExists, target, success,
                   compile_success, call, ret, retval, makefile_dir, result,
                   exitCode, listed, tstate, makeLog, copyLog, prompts>>

\* The slide selection kept whatever the PowerPoint file menu yielded.
SlideKept(slide, choice) == slide

\* The slide selection after the PowerPoint file menu yielded choice.
SlideAfterPpt(slide, choice) == IF choice = NoName THEN None ELSE slide

\* The PowerPoint file menu, line being the line typed.
PptMenu(line) ==
    /\ pc = "ask_ppt"
    /\ LET choice == PptChoice(list_ppt_templates(repo), line)
       IN  /\ ppt_template' = choice
           /\ slide_template' = SlideAfterPpt(slide_template, choice)
    /\ pc' = "ask_target"
    /\ UNCHANGED <<argv, report_template, repo, targetExists, target, success,
                   compile_success, call, ret, retval, makefile_dir, result,
                   exitCode, listed, tstate, makeLog, copyLog, prompts>>

\* Interactive mode: the three menus.
AskReport == (\E line \in MenuInputs : ReportMenu(line)) /\ UNCHANGED typed

AskSlide == (\E line \in MenuInputs : SlideMenu(line)) /\ UNCHANGED typed

AskPpt == (\E line \in MenuInputs : PptMenu(line)) /\ UNCHANGED typed

\* Interactive mode: the target path prompt (the path itself is not modelled).
AskTarget ==
    /\ pc = "ask_target"
    /\ pc' = "validate"
    /\ UNCHANGED <<typed, argv, report_template, slide_template, ppt_template, repo,
                   targetExists, target, success, compile_success, call, ret,
                   retval, makefile_dir, result, exitCode, listed, tstate,
                   makeLog, copyLog, prompts>>

\* At least one template must be selected.
MainValidate ==
    /\ pc = "validate"
    /\ IF NothingSelected(report_template, slide_template) THEN Exit(1)
       ELSE /\ pc' = IF HasArgs(argv) THEN "mkdir" ELSE "confirm"
            /\ UNCHANGED exitCode
    /\ UNCHANGED <<typed, argv, report_template, slide_template, ppt_template, repo,
                   targetExists, target, success, compile_success, call, ret,
                   retval, makefile_dir, result, listed, tstate, makeLog,
                   copyLog, prompts>>

\* Interactive mode: the confirmation; only the answer n cancels.
MainConfirm ==
    /\ pc = "confirm"
    /\ \E line \in AnswerInputs :
          IF Lower(Strip(line)) = <<"n">> THEN Exit(0)
          ELSE /\ pc' = "mkdir"
               /\ UNCHANGED exitCode
    /\ UNCHANGED <<typed, argv, report_template, slide_template, ppt_template, repo,
                   targetExists, target, success, compile_success, call, ret,
                   retval, makefile_dir, result, listed, tstate, makeLog,
                   copyLog, prompts>>

\* The target directory is created and the copy stage begins.
MainMkdir ==
    /\ pc = "mkdir"
    /\ targetExists' = TRUE
    /\ success' = TRUE
    /\ tstate' = [report |-> IF KeyGiven(report_template) THEN "selected" ELSE "none",
                  slide |-> IF KeyGiven(slide_template) THEN "selected" ELSE "none"]
    /\ pc' = "copy_report"
    /\ UNCHANGED <<typed, argv, report_template, slide_template, ppt_template, repo,
                   target, compile_success, call, ret, retval, makefile_dir,
                   result, exitCode, listed, makeLog, copyLog, prompts>>

\* The flag overwritten by each call's result.
LastOnly(flag, ok) == ok

\* main's success flag after a call that returned ok.
Accumulate(flag, ok) == IF ok THEN flag ELSE FALSE

\* The state after main's call of copy_template for the template of the
\* given kind, answer being the line typed at an overwrite prompt.
CopyStep(kind, key, info, is_ppt, answer) ==
    LET res == copy_template(repo, target, key, info, kind, is_ppt, ppt_template, answer)
    IN  /\ target' = res.target
        /\ success' = Accumulate(success, res.ok)
        /\ tstate' = SetStage(tstate, kind, IF res.ok THEN "copied" ELSE "copy-failed")
        /\ copyLog' = Append(copyLog, kind)
        /\ prompts' = IF res.prompted THEN Append(prompts, kind) ELSE prompts

\* The copy of the report template, if one is selected.
CopyReport ==
    /\ pc = "copy_report"
    /\ IF KeyGiven(report_template)
       THEN \E answer \in AnswersFor(repo, target, report_template,
                                       REPORT_TEMPLATES[report_template], "report",
                                       FALSE, ppt_template) :
               CopyStep("report", report_template, REPORT_TEMPLATES[report_template],
                        FALSE, answer)
       ELSE UNCHANGED <<target, success, tstate, copyLog, prompts>>
    /\ pc' = "copy_slide"
    /\ UNCHANGED <<typed, argv, report_template, slide_template, ppt_template, repo,
                   targetExists, compile_success, call, ret, retval,
                   makefile_dir, result, exitCode, listed, makeLog>>

\* The copy of the slide template, if one is selected.
CopySlide ==
    /\ pc = "copy_slide"
    /\ IF KeyGiven(slide_template)
       THEN \E answer \in AnswersFor(repo, target, slide_template,
                                       SLIDE_TEMPLATES[slide_template], "slide",
                                       slide_template = "ppt", ppt_template) :
               CopyStep("slide", slide_template, SLIDE_TEMPLATES[slide_template],
                        slide_template = "ppt", answer)
       ELSE UNCHANGED <<target, success, tstate, copyLog, prompts>>
    /\ pc' = "copy_check"
    /\ UNCHANGED <<typed, argv, report_template, slide_template, ppt_template, repo,
                   targetExists, compile_success, call, ret, retval,
                   makefile_dir, result, exitCode, listed, makeLog>>

\* The copy stage's result ignored.
CopyStageNeverFails(ok) == FALSE

\* The copy stage failed.
CopyStageFailed(ok) == ~ok

\* A failed copy ends the run before the build stage.
CopyCheck ==
    /\ pc = "copy_check"
    /\ IF CopyStageFailed(success) THEN /\ Exit(1)
                        /\ UNCHANGED compile_success
       ELSE /\ compile_success' = TRUE
            /\ pc' = "compile_report"
            /\ UNCHANGED exitCode
    /\ UNCHANGED <<typed, argv, report_template, slide_template, ppt_template, repo,
                   targetExists, target, success, call, ret, retval,
                   makefile_dir, result, listed, tstate, makeLog, copyLog,
                   prompts>>

\* The arguments of a compile_template call.
CallOf(key, info, template_type) ==
    [template_key |-> key, has_makefile |-> info.has_makefile,
     template_type |-> template_type]

\* main calls compile_template for the report template, if one is selected.
CompileReport ==
    /\ pc = "compile_report"
    /\ IF KeyGiven(report_template)
       THEN /\ call' = CallOf(report_template, REPORT_TEMPLATES[report_template], "report")
            /\ ret' = "compile_report_ret"
            /\ pc' = "compile_enter"
       ELSE /\ pc' = "compile_slide"
            /\ UNCHANGED <<call, ret>>
    /\ UNCHANGED <<typed, argv, report_template, slide_template, ppt_template, repo,
                   targetExists, target, success, compile_success, retval,
                   makefile_dir, result, exitCode, listed, tstate, makeLog,
                   copyLog, prompts>>

\* main records the report build's outcome.
CompileReportRet ==
    /\ pc = "compile_report_ret"
    /\ compile_success' = Accumulate(compile_success, retval)
    /\ pc' = "compile_slide"
    /\ UNCHANGED <<typed, argv, report_template, slide_template, ppt_template, repo,
                   targetExists, target, success, call, ret, retval,
                   makefile_dir, result, exitCode, listed, tstate, makeLog,
                   copyLog, prompts>>

\* Whether main calls compile_template for the slide template.
SlideIsCompiled(s) == KeyGiven(s) /\ s # "ppt"

\* main calls compile_template for the slide template, unless it is ppt.
CompileSlide ==
    /\ pc = "compile_slide"
    /\ IF SlideIsCompiled(slide_template)
       THEN /\ call' = CallOf(slide_template, SLIDE_TEMPLATES[slide_template], "slide")
            /\ ret' = "compile_slide_ret"
            /\ pc' = "compile_enter"
            /\ UNCHANGED tstate
       ELSE /\ pc' = "summary"
            /\ tstate' = IF KeyGiven(slide_template)
                         THEN SetStage(tstate, "slide", "build-skipped") ELSE tstate
            /\ UNCHANGED <<call, ret>>
    /\ UNCHANGED <<typed, argv, report_template, slide_template, ppt_template, repo,
                   targetExists, target, success, compile_success, retval,
                   makefile_dir, result, exitCode, listed, makeLog, copyLog,
                   prompts>>

\* main records the slide build's outcome.
CompileSlideRet ==
    /\ pc = "compile_slide_ret"
    /\ compile_success' = Accumulate(compile_success, retval)
    /\ pc' = "summary"
    /\ UNCHANGED <<typed, argv, report_template, slide_template, ppt_template, repo,
                   targetExists, target, success, call, ret, retval,
                   makefile_dir, result, exitCode, listed, tstate, makeLog,
                   copyLog, prompts>>

\* The exit code with which main ends after the summary.
FinalExitCode(built) == 0

\* The summary is printed and main returns.
MainSummary ==
    /\ pc = "summary"
    /\ Exit(FinalExitCode(compile_success))
    /\ UNCHANGED <<typed, argv, report_template, slide_template, ppt_template, repo,
                   targetExists, target, success, compile_success, call, ret,
                   retval, makefile_dir, result, listed, tstate, makeLog,
                   copyLog, prompts>>

-----------------------------------------------------------------------------
(* compile_template                                                        *)

\* The test without the PowerPoint case.
NoBuildFlagOnly(c) == ~c.has_makefile

\* The template needs no build: no build step, or the PowerPoint template.
NoBuild(c) == ~c.has_makefile \/ c.template_key = "ppt"

\* compile_template up to the search for the Makefile.
CompileEnter ==
    /\ pc = "compile_enter"
    /\ IF NoBuild(call)
       THEN /\ retval' = TRUE
            /\ pc' = ret
            /\ tstate' = SetStage(tstate, call.template_type, "build-skipped")
            /\ UNCHANGED makefile_dir
       ELSE \E m \in find_makefile(target[TargetSubdir(call.template_key, call.template_type)]) :
               /\ makefile_dir' = m
               /\ IF m.found
                  THEN /\ pc' = "compile_run"
                       /\ tstate' = SetStage(tstate, call.template_type, "build-located")
                       /\ UNCHANGED retval
                  ELSE /\ retval' = FALSE
                       /\ pc' = ret
                       /\ tstate' = SetStage(tstate, call.template_type, "build-skipped")
    /\ UNCHANGED <<typed, argv, report_template, slide_template, ppt_template, repo,
                   targetExists, target, success, compile_success, call, ret,
                   result, exitCode, listed, makeLog, copyLog, prompts>>

\* compile_template runs make in the directory found.
CompileRun ==
    /\ pc = "compile_run"
    /\ \E outcome \in MakeOutcomes :
          /\ result' = outcome
          /\ makeLog' = Append(makeLog, [template_key |-> call.template_key,
                                         template_type |-> call.template_type,
                                         has_makefile |-> call.has_makefile,
                                         cwd |-> makefile_dir.dir,
                                         outcome |-> outcome])
    /\ tstate' = SetStage(tstate, call.template_type, "build-ran")
    /\ pc' = "compile_finish"
    /\ UNCHANGED <<typed, argv, report_template, slide_template, ppt_template, repo,
                   targetExists, target, success, compile_success, call, ret,
                   retval, makefile_dir, exitCode, listed, copyLog, prompts>>

\* What compile_template returns for an outcome of subprocess.run.
BuildOk(res) == res.raised = None /\ res.returncode = 0

\* compile_template reports the outcome and returns.
CompileFinish ==
    /\ pc = "compile_finish"
    /\ retval' = BuildOk(result)
    /\ tstate' = SetStage(tstate, call.template_type,
                          IF BuildOk(result) THEN "build-succeeded" ELSE "build-failed")
    /\ pc' = ret
    /\ UNCHANGED <<typed, argv, report_template, slide_template, ppt_template, repo,
                   targetExists, target, success, compile_success, call, ret,
                   makefile_dir, result, exitCode, listed, makeLog, copyLog,
                   prompts>>

Next ==
    \/ MainStart
    \/ MainParse
    \/ AskReport
    \/ AskSlide
    \/ AskPpt
    \/ AskTarget
    \/ MainValidate
    \/ MainConfirm
    \/ MainMkdir
    \/ CopyReport
    \/ CopySlide
    \/ CopyCheck
    \/ CompileReport
    \/ CompileReportRet
    \/ CompileSlide
    \/ CompileSlideRet
    \/ MainSummary
    \/ CompileEnter
    \/ CompileRun
    \/ CompileFinish

Spec == Init /\ [][Next]_vars

-----------------------------------------------------------------------------
(* compile_template called on its own, with any descriptor and any tree.   *)

AllKeys == DOMAIN REPORT_TEMPLATES \cup DOMAIN SLIDE_TEMPLATES

TemplateTypes == {"report", "slide", None}

\* The directory names of the trees searched for a Makefile.
DirNames == {<<"slide">>, <<"src">>}

\* Trees holding a Makefile in at most two directories.
MakefileTrees ==
    {Dir({a \o <<MakefileName>>, b \o <<MakefileName>>}) :
        a, b \in SeqsUpTo(DirNames, MaxDirDepth)} \cup {Dir({}), NoDir}

CompileCalls ==
    [template_key : AllKeys, has_makefile : BOOLEAN, template_type : TemplateTypes]

CompileInit ==
    /\ pc = "compile_enter"
    /\ call \in CompileCalls
    /\ ret = "returned"
    /\ \E d \in MakefileTrees :
          target = [EmptyTarget EXCEPT
                       ![TargetSubdir(call.template_key, call.template_type)] = d]
    /\ targetExists = TRUE
    /\ repo = BrokenRepo
    /\ argv = NoArgs
    /\ Fresh

CompileNext == CompileEnter \/ CompileRun \/ CompileFinish

SpecCompile == CompileInit /\ [][CompileNext]_vars

\* Runs of main together with compile_template called on its own.
BuildInit == Init \/ CompileInit

SpecBuild == BuildInit /\ [][Next]_vars

-----------------------------------------------------------------------------
(* copy_template called on its own, with any source and destination tree.  *)

InfoOf(key) ==
    IF key \in DOMAIN REPORT_TEMPLATES THEN REPORT_TEMPLATES[key] ELSE SLIDE_TEMPLATES[key]

\* The files of the source trees.
SourcePaths ==
    {<<<<"main", "tex">>>>, <<<<"main", "aux">>>>,
     <<<<"site">>, <<"index", "html">>>>, <<<<"figs">>, <<"x", "synctex", "gz">>>>,
     <<<<"figs">>, <<"data", "csv">>>>, <<<<"a", "pptx">>>>}

SourceDirs == {Dir({a, b}) : a, b \in SourcePaths} \cup {Dir({}), NoDir}

\* The files of the destination trees.
DestPaths == {<<<<"old", "txt">>>>, <<<<"main", "aux">>>>}

DestDirs == {Dir({a, b}) : a, b \in DestPaths} \cup {Dir({}), NoDir}

\* The templates copied on their own: a report, a slide and the PowerPoint one.
CopyKeys == {"latex_exp", "reveal-md", "ppt"}

CopyCalls ==
    [template_key : CopyKeys, template_type : TemplateTypes, is_ppt : BOOLEAN]

CopyInit ==
    /\ pc = "copy_call"
    /\ call \in CopyCalls
    /\ ppt_template \in {NoName, <<"a", "pptx">>}
    /\ ret = "returned"
    /\ \E d \in SourceDirs : repo = [BrokenRepo EXCEPT ![InfoOf(call.template_key).path] = d]
    /\ \E d \in DestDirs :
          target = [EmptyTarget EXCEPT
                       ![TargetSubdir(call.template_key, call.template_type)] = d]
    /\ targetExists = \E d \in TargetSubdirs : target[d].exists
    /\ argv = NoArgs
    /\ report_template = None
    /\ slide_template = None
    /\ success = TRUE
    /\ compile_success = TRUE
    /\ retval = TRUE
    /\ makefile_dir = NotFound
    /\ result = NoResult
    /\ exitCode = <<>>
    /\ listed = <<>>
    /\ tstate = Stages
    /\ makeLog = <<>>
    /\ copyLog = <<>>
    /\ prompts = <<>>
    /\ typed = NoTyped

\* One call of copy_template; the line typed at the overwrite prompt is
\* recorded with the prompt.
CopyCall ==
    /\ pc = "copy_call"
    /\ \E answer \in AnswersFor(repo, target, call.template_key, InfoOf(call.template_key),
                                call.template_type, call.is_ppt, ppt_template) :
          LET res == copy_template(repo, target, call.template_key,
                                   InfoOf(call.template_key), call.template_type,
                                   call.is_ppt, ppt_template, answer)
          IN  /\ target' = res.target
              /\ targetExists' = (targetExists \/ res.wrote)
              /\ retval' = res.ok
              /\ prompts' = IF res.prompted THEN Append(prompts, answer) ELSE prompts
    /\ copyLog' = Append(copyLog, call.template_type)
    /\ pc' = ret
    /\ UNCHANGED <<typed, argv, report_template, slide_template, ppt_template, repo,
                   success, compile_success, call, ret, makefile_dir, result,
                   exitCode, listed, tstate, makeLog>>

SpecCopy == CopyInit /\ [][CopyCall]_vars

-----------------------------------------------------------------------------
(* select_templates_interactive called on its own, the line typed at each  *)
(* menu being recorded.                                                    *)

MenuInit ==
    /\ pc = "ask_report"
    /\ \E d \in RepoDirs["PPT/templates"] : repo = [BrokenRepo EXCEPT !["PPT/templates"] = d]
    /\ argv = NoArgs
    /\ targetExists = FALSE
    /\ target = EmptyTarget
    /\ call = NoCall
    /\ ret = "none"
    /\ Fresh

TypedReport ==
    \E line \in MenuInputs : ReportMenu(line) /\ typed' = [menu |-> "report", line |-> line]

TypedSlide ==
    \E line \in MenuInputs : SlideMenu(line) /\ typed' = [menu |-> "slide", line |-> line]

TypedPpt ==
    \E line \in MenuInputs : PptMenu(line) /\ typed' = [menu |-> "ppt", line |-> line]

TypedTarget == AskTarget

MenuNext == TypedReport \/ TypedSlide \/ TypedPpt \/ TypedTarget

SpecMenu == MenuInit /\ [][MenuNext]_vars

-----------------------------------------------------------------------------
(* Properties.                                                             *)

Kinds == {"report", "slide"}

Terminal == {"copy-failed", "build-skipped", "build-succeeded", "build-failed"}

\* Positions of main before the target directory is created.
SelectionPcs ==
    {"start", "parse", "ask_report", "ask_slide", "ask_ppt", "ask_target",
     "validate", "confirm"}

\* The copy stage has been entered (MainMkdir has run).
CopyStageEntered == tstate # Stages

\* Both copy_template calls of main are behind.
CopyStageOver ==
    \/ pc \in {"copy_check", "compile_report", "compile_report_ret", "compile_slide",
               "compile_slide_ret", "summary", "compile_enter", "compile_run",
               "compile_finish"}
    \/ pc = "exited" /\ CopyStageEntered

\* The *.pptx names in the PowerPoint template directory.
Discovered ==
    IF repo["PPT/templates"].exists
    THEN {n \in Children(repo["PPT/templates"]) : Len(n) >= 2 /\ n[Len(n)] = "pptx"}
    ELSE {}

\* A name the copy leaves out: a build artefact, a site, cache or .git entry.
Excluded(n) ==
    \/ /\ Len(n) >= 2
       /\ n[Len(n)] \in {"aux", "log", "out", "toc", "bbl", "blg", "fls",
                         "fdb_latexmk", "nav", "snm", "vrb", "pdf", "pyc"}
    \/ /\ Len(n) >= 3
       /\ n[Len(n) - 1] = "synctex"
       /\ n[Len(n)] = "gz"
    \/ n \in {<<"site">>, <<"__pycache__">>, <<"", "git">>}

\* The line is y or Y, with blanks around it at most.
IsYes(a) ==
    \E i \in 1..Len(a) :
        /\ a[i] \in {"y", "Y"}
        /\ \A j \in 1..Len(a) : j # i => a[j] = " "

\* The validation step with nothing selected ends the run with code 1.
C1_Refused ==
    (pc = "validate" /\ report_template = None /\ slide_template = None)
       => (pc' = "exited" /\ exitCode' = <<1>>)

\* A step before the target directory's creation leaves the file system alone.
C1_Untouched ==
    pc \in SelectionPcs
       => /\ target' = target
          /\ targetExists' = targetExists
          /\ copyLog' = copyLog
          /\ makeLog' = makeLog

\* A run that ended with nothing selected ended with code 1 before the copy stage.
C1_AtExit ==
    (pc = "exited" /\ report_template = None /\ slide_template = None)
       => /\ exitCode = <<1>>
          /\ copyLog = <<>>
          /\ makeLog = <<>>
          /\ ~CopyStageEntered

\* C1: when selection resolution yields neither a report nor a slide, main
\* exits with a nonzero code, and nothing has touched the file system by then:
\* no step before the target directory's creation changes the target, copies
\* or builds.
C1_NoSelectionExits ==
    /\ [][C1_Refused]_vars
    /\ [][C1_Untouched]_vars
    /\ []C1_AtExit

\* An interactive run answered 0 and 0 has exited with code 1, the target
\* directory still absent.
C1_Witness ==
    /\ pc = "exited"
    /\ argv = NoArgs
    /\ repo["latex_exp"].exists
    /\ report_template = None
    /\ slide_template = None
    /\ exitCode = <<1>>
    /\ ~targetExists

\* C2: a flag-mode run with a report and a non-PowerPoint slide template, both
\* copied and both built by an invocation of the build tool that returned,
\* has brought both templates to the end of their build and exits with code 0
\* exactly when both invocations returned code 0.
C2_ExitReflectsBuilds ==
    (/\ pc = "exited"
     /\ HasArgs(argv)
     /\ report_template # None
     /\ slide_template \notin {None, "ppt"}
     /\ CopyStageEntered
     /\ \A k \in Kinds : tstate[k] # "copy-failed"
     /\ Len(makeLog) = 2
     /\ \A i \in 1..Len(makeLog) : makeLog[i].outcome.raised = None)
    => /\ \A k \in Kinds : tstate[k] \in Terminal
       /\ (exitCode = <<0>>) <=>
             (\A i \in 1..Len(makeLog) :
                 /\ makeLog[i].outcome.raised = None
                 /\ makeLog[i].outcome.returncode = 0)

\* The templates main was asked to copy, in the order it copies them.
Requested ==
    (IF report_template # None THEN <<"report">> ELSE <<>>) \o
    (IF slide_template # None THEN <<"slide">> ELSE <<>>)

\* C3: every requested copy is attempted, also after a failed one; and once
\* a copy has failed no build tool is invoked and the process ends with exit
\* code 1.
C3_AllCopiesAttempted ==
    /\ CopyStageOver => copyLog = Requested
    /\ (\E k \in Kinds : tstate[k] = "copy-failed")
          => /\ makeLog = <<>>
             /\ pc \in {"copy_slide", "copy_check", "exited"}
             /\ pc = "exited" => exitCode = <<1>>

\* The report copy failed, the slide copy was made all the same, and the
\* run ended with code 1 without a build.
C3_Witness ==
    /\ pc = "exited"
    /\ tstate["report"] = "copy-failed"
    /\ tstate["slide"] = "copied"
    /\ copyLog = <<"report", "slide">>
    /\ exitCode = <<1>>
    /\ makeLog = <<>>

\* What a call of copy_template works on.
CallSub == TargetSubdir(call.template_key, call.template_type)

CallSource == repo[InfoOf(call.template_key).path]

\* A call that reaches the overwrite prompt, and what it does.
C4_Step ==
    (/\ pc = "copy_call"
     /\ ~(call.is_ppt /\ ppt_template \notin {NoName, EmptyName})
     /\ CallSource.exists
     /\ target[CallSub].exists)
    => /\ Len(prompts') = Len(prompts) + 1
       /\ IF IsYes(prompts'[Len(prompts')])
          THEN /\ retval'
               /\ target'[CallSub] =
                     Dir({f \in CallSource.files : \A i \in 1..Len(f) : ~Excluded(f[i])})
               /\ \A d \in TargetSubdirs \ {CallSub} : target'[d] = target[d]
          ELSE /\ ~retval'
               /\ target' = target

\* C4: for a directory template whose source exists and whose destination
\* exists, copy_template prompts; an answer other than y (trimmed,
\* lower-cased) leaves the target as it was and returns failure; the answer y
\* makes the destination the source tree without the excluded names, nothing
\* of the old destination remaining, and leaves the rest of the target alone.
C4_OverwritePrompt == [][C4_Step]_vars

\* The prompt was answered with a y that needed trimming or lower-casing,
\* and the destination now holds part of the source only.
C4_Witness ==
    /\ pc = "returned"
    /\ prompts # <<>>
    /\ IsYes(prompts[1])
    /\ prompts[1] # <<"y">>
    /\ retval
    /\ target[CallSub].files # {}
    /\ \E f \in CallSource.files : f \notin target[CallSub].files

\* A run with --slide ppt and no file name stays in argument handling and
\* ends with code 1, the discovered .pptx files listed.
C5_Refused ==
    (/\ HasArgs(argv)
     /\ argv.slide = "ppt"
     /\ argv.ppt_template \in {NoName, EmptyName})
    => /\ pc \in {"start", "parse", "exited"}
       /\ copyLog = <<>>
       /\ makeLog = <<>>
       /\ pc = "exited"
             => /\ exitCode = <<1>>
                /\ repo["latex_exp"].exists
                      => /\ {listed[i] : i \in 1..Len(listed)} = Discovered
                         /\ Len(listed) = Cardinality(Discovered)

\* Argument handling leaves the target alone.
C5_Untouched ==
    pc \in {"start", "parse"} => (target' = target /\ targetExists' = targetExists)

\* C5: in flag mode, --slide ppt without a file name never gets past
\* argument handling: the process exits with code 1, the names listed are
\* exactly the discovered .pptx files, and the target is left untouched.
C5_PptNameRequired ==
    /\ []C5_Refused
    /\ [][C5_Untouched]_vars

\* The error listed two .pptx files and the target directory is still absent.
C5_Witness ==
    /\ pc = "exited"
    /\ argv.slide = "ppt"
    /\ argv.ppt_template = NoName
    /\ exitCode = <<1>>
    /\ Len(listed) = 2
    /\ ~targetExists

\* The moves of a template between stages.
StageMoves ==
    {<<"none", "selected">>, <<"selected", "copied">>, <<"selected", "copy-failed">>,
     <<"copied", "build-skipped">>, <<"copied", "build-located">>,
     <<"build-located", "build-ran">>, <<"build-ran", "build-succeeded">>,
     <<"build-ran", "build-failed">>}

\* C6 as stated: when the process has exited, every selected template of a
\* run that entered the copy stage is in a terminal stage.
C6_ExitTerminal ==
    pc = "exited" => \A k \in Kinds : tstate[k] \in Terminal \cup {"none"}

\* Every change of a template's stage is a move of the stage machine.
C6_Moves ==
    \A k \in Kinds :
       tstate'[k] = tstate[k] \/ <<tstate[k], tstate'[k]>> \in StageMoves

\* At exit a template is in a terminal stage, or left in copied by the
\* failure of another template's copy.
C6_AtExit ==
    pc = "exited"
       => \A k \in Kinds :
             \/ tstate[k] \in Terminal \cup {"none"}
             \/ /\ tstate[k] = "copied"
                /\ exitCode = <<1>>
                /\ makeLog = <<>>
                /\ \E j \in Kinds : tstate[j] = "copy-failed"

\* C6 amended: templates move along the stage machine only, and at exit
\* each selected template is in a terminal stage, or it is left in copied
\* because another template's copy failed and the run ended with code 1
\* before the build stage.
C6_Stages ==
    /\ [][C6_Moves]_vars
    /\ []C6_AtExit

\* The run ended with the report copied but never built, the slide copy
\* having failed.
C6_Witness ==
    /\ pc = "exited"
    /\ tstate["report"] = "copied"
    /\ tstate["slide"] = "copy-failed"

\* The tree compile_template searches, and the directories of it that hold
\* a Makefile.
SearchBase == target[CallSub]

Holds(d) == (d \o <<MakefileName>>) \in SearchBase.files

\* compile_template has searched for the Makefile.
Searched ==
    /\ pc \in {"compile_run", "compile_finish", "returned"}
    /\ call.has_makefile
    /\ call.template_key # "ppt"

\* C7: the directory found is the root if it holds a Makefile; else the
\* first of slide/src, src, slide that holds one; else a directory at most 3
\* levels below the root that holds one and has no such ancestor; and when no
\* directory within 3 levels holds one, nothing is found, no build tool is
\* invoked and compile_template returns failure.
C7_SearchOrder ==
    Searched =>
       LET slide_src == << <<"slide">>, <<"src">> >>
           src == << <<"src">> >>
           slide == << <<"slide">> >>
       IN  IF Holds(<<>>) THEN makefile_dir = Found(<<>>)
           ELSE IF Holds(slide_src) THEN makefile_dir = Found(slide_src)
           ELSE IF Holds(src) THEN makefile_dir = Found(src)
           ELSE IF Holds(slide) THEN makefile_dir = Found(slide)
           ELSE IF \E d \in DirsOf(SearchBase) : Len(d) <= 3 /\ Holds(d)
           THEN /\ makefile_dir.found
                /\ Len(makefile_dir.dir) <= 3
                /\ Holds(makefile_dir.dir)
                /\ \A i \in 0..(Len(makefile_dir.dir) - 1) :
                      ~Holds(SubSeq(makefile_dir.dir, 1, i))
           ELSE /\ makefile_dir = NotFound
                /\ pc = "returned"
                /\ retval = FALSE
                /\ makeLog = <<>>

\* A tree whose only Makefile lies deeper than 3 levels was searched:
\* nothing was found and nothing was built.
C7_Witness ==
    /\ Searched
    /\ pc = "returned"
    /\ makefile_dir = NotFound
    /\ SearchBase.files # {}
    /\ makeLog = <<>>
    /\ retval = FALSE

\* C8: the build tool is invoked only for a template with a build step
\* that is not the PowerPoint template; for the others compile_template
\* returns success without searching or building; and main never calls
\* compile_template for the slide key ppt.
C8_NoBuildForPpt ==
    /\ \A i \in 1..Len(makeLog) :
          makeLog[i].has_makefile /\ makeLog[i].template_key # "ppt"
    /\ pc \in {"compile_run", "compile_finish"}
          => call.has_makefile /\ call.template_key # "ppt"
    /\ (pc = "returned" /\ (~call.has_makefile \/ call.template_key = "ppt"))
          => (retval = TRUE /\ makefile_dir = NotFound /\ makeLog = <<>>)
    /\ ret \in {"compile_report_ret", "compile_slide_ret"} => call.template_key # "ppt"
    /\ (pc = "exited" /\ slide_template = "ppt")
          => \A i \in 1..Len(makeLog) : makeLog[i].template_type # "slide"

\* compile_template was called for ppt with the build flag set and returned
\* success without a build.
C8_Witness ==
    /\ pc = "returned"
    /\ call.template_key = "ppt"
    /\ call.has_makefile
    /\ retval = TRUE
    /\ makeLog = <<>>

\* The line last typed is no integer, or an integer outside lo..hi.
BadIndex(lo, hi) ==
    LET idx == ParseInt(typed.line)
    IN  ~idx.ok \/ idx.val < lo \/ idx.val > hi

\* What the selection is after an invalid line at each menu.
C9_Menus ==
    /\ (typed.menu = "report")
          => /\ pc = "ask_slide"
             /\ BadIndex(0, Len(ReportKeys)) => report_template = None
    /\ (typed.menu = "slide" /\ BadIndex(0, Len(SlideKeys)))
          => /\ pc \in {"ask_target", "validate"}
             /\ slide_template = None
             /\ ppt_template = NoName
    /\ (typed.menu = "slide" /\ Discovered = {})
          => /\ pc \in {"ask_target", "validate"}
             /\ slide_template # "ppt"
             /\ ppt_template = NoName
    /\ (typed.menu = "ppt" /\ BadIndex(1, Cardinality(Discovered)))
          => /\ pc \in {"ask_target", "validate"}
             /\ slide_template = None
             /\ ppt_template = NoName

\* The menus after the report menu leave the report selection alone.
C9_ReportKept ==
    pc \in {"ask_slide", "ask_ppt", "ask_target"} => report_template' = report_template

\* C9: a line that is no integer or lies outside the offered range yields
\* "no selection" at the report menu and at the slide menu, and at the
\* PowerPoint file menu (as does an empty list of PowerPoint files) it
\* resets the slide selection; the prompts go on to the target path; and the
\* report selection is not changed by the later menus.
C9_InvalidInput ==
    /\ []C9_Menus
    /\ [][C9_ReportKept]_vars

\* After choosing a report, -1 was typed at the PowerPoint file menu: the
\* slide selection is gone and the report selection stands.
C9_Witness ==
    /\ typed = [menu |-> "ppt", line |-> <<"-", "1">>]
    /\ pc = "ask_target"
    /\ report_template = "latex_exp"
    /\ slide_template = None

\* The target with the chosen .pptx file added to its slide directory.
WithPptFile == [target EXCEPT !["slide"] = Dir(@.files \cup {<<ppt_template>>})]

\* From the copy stage on, ppt comes with a non-empty file name.
C10_NameGiven ==
    (slide_template = "ppt" /\ (pc \notin SelectionPcs \cup {"exited"} \/ CopyStageEntered))
       => ppt_template \notin {NoName, EmptyName}

\* The copy of ppt shows no prompt and at most adds the chosen file.
C10_Copy ==
    (pc = "copy_slide" /\ slide_template = "ppt")
       => (prompts' = prompts /\ target' \in {target, WithPptFile})

\* C10: from the copy stage on, a slide selection ppt comes with a
\* non-empty file name; and its copy shows no overwrite prompt and at most
\* adds that one file to the slide directory.
C10_PptSingleFile ==
    /\ []C10_NameGiven
    /\ [][C10_Copy]_vars

\* The .pptx file was added to a slide directory that existed already, with
\* no prompt.
C10_Witness ==
    /\ slide_template = "ppt"
    /\ tstate["slide"] = "copied"
    /\ <<ppt_template>> \in target["slide"].files
    /\ <<<<"old", "txt">>>> \in target["slide"].files
    /\ "slide" \notin {prompts[i] : i \in 1..Len(prompts)}

====
